---- MODULE Spec2Model ----
(***************************************************************************)
(* Lunch Management System (backend_server.py): the attendance cutoff      *)
(* resolver and store (mark_attendance), the daily office count            *)
(* (get_daily_office_count) and the daily chef notification                *)
(* (start_scheduler, send_chef_notification, send_email_notification).     *)
(*                                                                         *)
(* Dates are proleptic Gregorian ordinals as datetime.date keeps them, a   *)
(* datetime is a record of its fields, and a date string "YYYY-MM-DD" is   *)
(* the record of its three numeric fields.                                 *)
(***************************************************************************)
EXTENDS Integers, Sequences, FiniteSets, TLC

(***************************************************************************)
(* Bounds of the model.                                                    *)
(***************************************************************************)
\* number of calendar days the clock runs through, starting on a StartDates day
MaxDays == 2
\* number of attendance submissions received over a behaviour
MaxRequests == 2

(***************************************************************************)
(* Program constants.                                                      *)
(***************************************************************************)
\* now.replace(hour=21, minute=30, second=0, microsecond=0)
CutoffHour == 21
CutoffMinute == 30
\* CronTrigger(hour=18, minute=57, day_of_week='mon-fri')
NotifyHour == 18
NotifyMinute == 57

(***************************************************************************)
(* datetime.date / datetime.datetime                                       *)
(***************************************************************************)
is_leap(y) == (y % 4 = 0) /\ ((y % 100 # 0) \/ (y % 400 = 0))

days_in_month(y, m) ==
    IF m = 2 THEN (IF is_leap(y) THEN 29 ELSE 28)
    ELSE IF m \in {4, 6, 9, 11} THEN 30 ELSE 31

RECURSIVE days_before_month(_, _)
days_before_month(y, m) ==
    IF m <= 1 THEN 0 ELSE days_before_month(y, m - 1) + days_in_month(y, m - 1)

days_before_year(y) ==
    ((y - 1) * 365) + ((y - 1) \div 4) - ((y - 1) \div 100) + ((y - 1) \div 400)

\* date(y, m, d).toordinal()
ymd2ord(y, m, d) == days_before_year(y) + days_before_month(y, m) + d

\* date.weekday(): Monday = 0 ... Sunday = 6
weekday(d) == (d + 6) % 7

\* the date strings the model can form: "2024-06-01" .. "2024-06-31"
DateStrings == [y : {2024}, m : {6}, d : 1..31]

\* datetime.strptime(s, "%Y-%m-%d") raises ValueError when the fields do not
\* name a day of the calendar
strptime_raises(s) ==
    ~(s.m >= 1 /\ s.m <= 12 /\ s.d >= 1 /\ s.d <= days_in_month(s.y, s.m))

\* datetime.strptime(s, "%Y-%m-%d").date(), as an ordinal
strptime(s) == ymd2ord(s.y, s.m, s.d)

\* str(date): the string whose parse is the date
isoformat(d) ==
    CHOOSE s \in DateStrings : ~strptime_raises(s) /\ strptime(s) = d

\* datetime.replace(hour, minute, second, microsecond)
replace(dt, h, mi, s, us) ==
    [dt EXCEPT !.hour = h, !.minute = mi, !.second = s, !.microsecond = us]

\* datetime comparison a > b
dt_gt(a, b) ==
    \/ a.date > b.date
    \/ a.date = b.date /\ a.hour > b.hour
    \/ a.date = b.date /\ a.hour = b.hour /\ a.minute > b.minute
    \/ a.date = b.date /\ a.hour = b.hour /\ a.minute = b.minute
          /\ a.second > b.second
    \/ a.date = b.date /\ a.hour = b.hour /\ a.minute = b.minute
          /\ a.second = b.second /\ a.microsecond > b.microsecond

\* CURRENT_TIMESTAMP of the database: the clock at one-second resolution
CURRENT_TIMESTAMP(dt) == [dt EXCEPT !.microsecond = 0]

(***************************************************************************)
(* The wall clock: the instants of a day the model visits.                 *)
(***************************************************************************)
TimePoints ==
    << [hour |-> 18, minute |-> 57, second |-> 0, microsecond |-> 0],
       [hour |-> 21, minute |-> 30, second |-> 0, microsecond |-> 0],
       [hour |-> 21, minute |-> 30, second |-> 0, microsecond |-> 1],
       [hour |-> 21, minute |-> 45, second |-> 0, microsecond |-> 0] >>

\* Monday 2024-06-10 and Friday 2024-06-14
StartDates == {ymd2ord(2024, 6, 10), ymd2ord(2024, 6, 14)}

at(d, p) ==
    [date |-> d, hour |-> p.hour, minute |-> p.minute, second |-> p.second,
     microsecond |-> p.microsecond]

time_index(dt) ==
    CHOOSE k \in 1..Len(TimePoints) : at(dt.date, TimePoints[k]) = dt

(***************************************************************************)
(* is_weekend, is_after_cutoff_time                                        *)
(***************************************************************************)
is_weekend_sunday_only(check_date) == weekday(check_date) >= 6

is_weekend(check_date) == weekday(check_date) >= 5

is_after_cutoff_time_inclusive(n) ==
    ~dt_gt(replace(n, CutoffHour, CutoffMinute, 0, 0), n)

\* n is datetime.now()
is_after_cutoff_time(n) ==
    LET cutoff == replace(n, CutoffHour, CutoffMinute, 0, 0)
    IN  dt_gt(n, cutoff)

(***************************************************************************)
(* The attendance table.  A row is (user_id, date, status, marked_at); the *)
(* table is the sequence of its committed rows.                            *)
(***************************************************************************)
UserIds == {1, 2}
Statuses == {"office", "home", "leave"}

\* UNIQUE KEY (user_id, date) of the attendance table
duplicate_key(row, user_id, d) == row.user_id = user_id /\ row.date = d

\* a plain INSERT: the row is appended whatever the table holds
insert_only(rows, user_id, d, status, ts) ==
    Append(rows, [user_id |-> user_id, date |-> d, status |-> status,
                  marked_at |-> ts])

\* ON DUPLICATE KEY UPDATE status = %s, without marked_at = CURRENT_TIMESTAMP
upsert_status_only(rows, user_id, d, status, ts) ==
    IF \E k \in 1..Len(rows) : duplicate_key(rows[k], user_id, d)
    THEN [k \in 1..Len(rows) |->
            IF duplicate_key(rows[k], user_id, d)
            THEN [rows[k] EXCEPT !.status = status]
            ELSE rows[k]]
    ELSE insert_only(rows, user_id, d, status, ts)

\* INSERT INTO attendance (user_id, date, status) VALUES (...)
\*   ON DUPLICATE KEY UPDATE status = %s, marked_at = CURRENT_TIMESTAMP
upsert(rows, user_id, d, status, ts) ==
    IF \E k \in 1..Len(rows) : duplicate_key(rows[k], user_id, d)
    THEN [k \in 1..Len(rows) |->
            IF duplicate_key(rows[k], user_id, d)
            THEN [rows[k] EXCEPT !.status = status, !.marked_at = ts]
            ELSE rows[k]]
    ELSE Append(rows, [user_id |-> user_id, date |-> d, status |-> status,
                       marked_at |-> ts])

(***************************************************************************)
(* State.                                                                  *)
(***************************************************************************)
VARIABLES
    now,          \* the wall clock: datetime.now(); date.today() is now.date
    day,          \* the number of the calendar day the clock is in, from 1
    attendance,   \* the committed rows of the attendance table
    requests,     \* the POST /attendance requests being handled, by slot
    submitted,    \* number of requests received so far
    count_request,\* the GET /chef/daily-count request being handled
    users,        \* the rows of the users table
    api_key,      \* os.getenv("BREVO_API_KEY"); "" when it is not set
    scheduler,    \* the BackgroundScheduler and its chef_notification job
    runs,         \* the executions of send_chef_notification, by worker slot
    notifications,\* the committed rows of the notifications table, each with
                  \* the number of the run that wrote it
    job_errors    \* number of runs that ended with an error being logged

vars == <<now, day, attendance, requests, submitted, count_request, users,
          api_key, scheduler, runs, notifications, job_errors>>

\* what the clock and the attendance submissions leave as it is
dispatch_vars ==
    <<count_request, users, api_key, scheduler, runs, notifications, job_errors>>

\* the handler slots
ReqIds == {1, 2}

NoDateString == [y |-> 0, m |-> 0, d |-> 0]
NoTimestamp ==
    [date |-> 0, hour |-> 0, minute |-> 0, second |-> 0, microsecond |-> 0]

IdleRequest ==
    [pc |-> "idle", user_id |-> 0, date |-> NoDateString, status |-> "",
     attendance_date |-> 0, message |-> "", marked_at |-> NoTimestamp,
     conn |-> "none", status_code |-> 0, detail |-> ""]

IdleCount ==
    [pc |-> "idle", check_date |-> 0, office_count |-> 0, conn |-> "none",
     status_code |-> 0]

\* a response is handed to the client before anything else happens
Quiet ==
    /\ \A i \in ReqIds : requests[i].pc # "done"
    /\ count_request.pc # "done"

\* the date strings a client sends at instant n: a day around today, or a
\* string that names no day ("2024-06-31")
RequestDates(n) ==
    {s \in DateStrings :
        \/ strptime_raises(s)
        \/ strptime(s) \in (n.date - 1)..(n.date + 1)}

\* the row lock of an uncommitted INSERT ... ON DUPLICATE KEY UPDATE
holds_lock(r, user_id, d) ==
    r.pc = "commit" /\ r.user_id = user_id /\ r.attendance_date = d

\* the worker slots of the scheduler's thread pool
RunIds == {1, 2}

IdleRun ==
    [pc |-> "idle", run |-> 0, today |-> 0, office_count |-> 0,
     chef_results |-> << >>,
     k |-> 0, sends |-> << >>, pending |-> << >>, conn |-> "none",
     warnings |-> 0, raised |-> FALSE, failed |-> FALSE]

\* the execution of the job has ended and the executor takes the result
QuietRuns == \A r \in RunIds : runs[r].pc # "done"

\* the users table: three chefs, active or not, and an employee
Directories ==
    {<< [email |-> "chef1", role |-> "chef", is_active |-> a[1]],
        [email |-> "chef2", role |-> "chef", is_active |-> a[2]],
        [email |-> "chef3", role |-> "chef", is_active |-> a[3]],
        [email |-> "emp1", role |-> "employee", is_active |-> TRUE] >> :
     a \in [1..3 -> BOOLEAN]}

AllActive == CHOOSE u \in Directories : \A k \in 1..Len(u) : u[k].is_active

\* the fire time of the cron trigger on day d
fire_time(d) ==
    [date |-> d, hour |-> NotifyHour, minute |-> NotifyMinute, second |-> 0,
     microsecond |-> 0]

\* day_of_week='mon-fri'
cron_day(d) == weekday(d) \in 0..4

\* CronTrigger.get_next_fire_time(None, now): the first fire time at or after n
next_fire_from(n) ==
    LET ok(d) == cron_day(d) /\ ~dt_gt(n, fire_time(d))
        d0 == CHOOSE d \in n.date..(n.date + 7) :
                 ok(d) /\ \A e \in n.date..(n.date + 7) : ok(e) => d <= e
    IN  fire_time(d0)

\* CronTrigger.get_next_fire_time(previous, now): the first fire time after t
next_fire_after(t) ==
    LET ok(d) == cron_day(d) /\ dt_gt(fire_time(d), t)
        d0 == CHOOSE d \in t.date..(t.date + 7) :
                 ok(d) /\ \A e \in t.date..(t.date + 7) : ok(e) => d <= e
    IN  fire_time(d0)

\* the job is due: the scheduler's timer has reached next_run_time
JobDue ==
    scheduler.state = "running" /\ ~dt_gt(scheduler.next_run_time, now)

InitClock ==
    /\ now \in {at(d, TimePoints[1]) : d \in StartDates}
    /\ day = 1

InitAttendance ==
    /\ attendance = << >>
    /\ requests = [i \in ReqIds |-> IdleRequest]
    /\ submitted = 0
    /\ count_request = IdleCount

\* scheduler = BackgroundScheduler(): constructed, not started
InitScheduler ==
    /\ scheduler = [state |-> "stopped", next_run_time |-> NoTimestamp,
                    submitted |-> 0]
    /\ runs = [r \in RunIds |-> IdleRun]
    /\ notifications = << >>
    /\ job_errors = 0

Init ==
    /\ InitClock
    /\ InitAttendance
    /\ InitScheduler
    /\ users = AllActive
    /\ api_key = "key"

InitDispatch ==
    /\ InitClock
    /\ InitAttendance
    /\ InitScheduler
    /\ users \in Directories
    /\ api_key \in {"", "key"}

(***************************************************************************)
(* Time passes.                                                            *)
(***************************************************************************)
Tick ==
    /\ Quiet
    /\ QuietRuns
    /\ ~JobDue
    /\ LET k == time_index(now)
       IN  IF k < Len(TimePoints)
           THEN /\ now' = at(now.date, TimePoints[k + 1])
                /\ day' = day
           ELSE /\ day < MaxDays
                /\ now' = at(now.date + 1, TimePoints[1])
                /\ day' = day + 1
    /\ UNCHANGED <<attendance, requests, submitted>>
    /\ UNCHANGED dispatch_vars

(***************************************************************************)
(* mark_attendance                                                         *)
(***************************************************************************)
\* the handler up to the database access: parse, weekend check, cutoff;
\* date.today() and datetime.now() are read at the same instant of the clock
Resolve(i, user_id, date_str, status) ==
    LET req == [IdleRequest EXCEPT !.user_id = user_id, !.date = date_str,
                                   !.status = status]
        today == now.date
    IN  IF strptime_raises(date_str)
        THEN [req EXCEPT !.pc = "done", !.status_code = 400,
                         !.detail = "Invalid date format"]
        ELSE IF is_weekend(strptime(date_str))
        THEN [req EXCEPT !.pc = "done", !.status_code = 400,
                         !.detail = "Cannot mark attendance on weekends"]
        ELSE IF strptime(date_str) = today /\ is_after_cutoff_time(now)
        THEN [req EXCEPT !.pc = "connect",
                         !.attendance_date = today + 1,
                         !.message =
                            "Cutoff time passed. Attendance marked for tomorrow."]
        ELSE [req EXCEPT !.pc = "connect",
                         !.attendance_date = strptime(date_str),
                         !.message = "Attendance marked successfully."]

Submit(i) ==
    /\ Quiet
    /\ requests[i].pc = "idle"
    /\ \A j \in ReqIds : j < i => requests[j].pc # "idle"
    /\ submitted < MaxRequests
    /\ \E user_id \in UserIds, date_str \in RequestDates(now), status \in Statuses :
          requests' = [requests EXCEPT ![i] = Resolve(i, user_id, date_str, status)]
    /\ submitted' = submitted + 1
    /\ UNCHANGED <<now, day, attendance>>
    /\ UNCHANGED dispatch_vars

\* connection = get_db_connection(); cursor = connection.cursor()
Connect(i) ==
    /\ Quiet
    /\ requests[i].pc = "connect"
    /\ \/ /\ requests' = [requests EXCEPT ![i].pc = "execute", ![i].conn = "open"]
       \/ \* mysql.connector.Error in connect: HTTPException(500)
          /\ requests' = [requests EXCEPT ![i].pc = "done",
                                          ![i].status_code = 500,
                                          ![i].detail = "Database connection failed"]
       \/ \* connection.cursor() raises, before the try block is entered
          /\ requests' = [requests EXCEPT ![i].pc = "done", ![i].conn = "open",
                                          ![i].status_code = 500,
                                          ![i].detail = "Internal Server Error"]
    /\ UNCHANGED <<now, day, attendance, submitted>>
    /\ UNCHANGED dispatch_vars

\* cursor.execute(INSERT ... ON DUPLICATE KEY UPDATE ...)
Execute(i) ==
    /\ Quiet
    /\ requests[i].pc = "execute"
    /\ \/ /\ \A j \in ReqIds \ {i} :
                ~holds_lock(requests[j], requests[i].user_id,
                            requests[i].attendance_date)
          /\ requests' = [requests EXCEPT ![i].pc = "commit",
                                          ![i].marked_at = CURRENT_TIMESTAMP(now)]
       \/ \* except Error: connection.rollback(); HTTPException(500)
          /\ requests' = [requests EXCEPT ![i].pc = "close",
                                          ![i].status_code = 500,
                                          ![i].detail = "Failed to mark attendance"]
    /\ UNCHANGED <<now, day, attendance, submitted>>
    /\ UNCHANGED dispatch_vars

\* connection.commit(); return {"message": message, "date": str(attendance_date)}
Commit(i) ==
    /\ Quiet
    /\ requests[i].pc = "commit"
    /\ \/ /\ attendance' = upsert(attendance, requests[i].user_id,
                                   requests[i].attendance_date,
                                   requests[i].status, requests[i].marked_at)
          /\ requests' = [requests EXCEPT ![i].pc = "close",
                                          ![i].status_code = 200,
                                          ![i].detail = requests[i].message]
       \/ \* except Error: connection.rollback(); HTTPException(500)
          /\ attendance' = attendance
          /\ requests' = [requests EXCEPT ![i].pc = "close",
                                          ![i].marked_at = NoTimestamp,
                                          ![i].status_code = 500,
                                          ![i].detail = "Failed to mark attendance"]
    /\ UNCHANGED <<now, day, submitted>>
    /\ UNCHANGED dispatch_vars

\* finally: cursor.close(); connection.close()
Close(i) ==
    /\ Quiet
    /\ requests[i].pc = "close"
    /\ requests' = [requests EXCEPT ![i].pc = "done", ![i].conn = "closed"]
    /\ UNCHANGED <<now, day, attendance, submitted>>
    /\ UNCHANGED dispatch_vars

\* the response leaves the server
Respond(i) ==
    /\ requests[i].pc = "done"
    /\ requests' = [requests EXCEPT ![i] = IdleRequest]
    /\ UNCHANGED <<now, day, attendance, submitted>>
    /\ UNCHANGED dispatch_vars

Next ==
    \/ Tick
    \/ \E i \in ReqIds : Submit(i)
    \/ \E i \in ReqIds : Connect(i)
    \/ \E i \in ReqIds : Execute(i)
    \/ \E i \in ReqIds : Commit(i)
    \/ \E i \in ReqIds : Close(i)
    \/ \E i \in ReqIds : Respond(i)

Spec == Init /\ [][Next]_vars

(***************************************************************************)
(* send_email_notification                                                 *)
(***************************************************************************)
\* what requests.post does: a response with a status code, an exception, or,
\* the call being made without a timeout argument, nothing at all
Responses ==
    [kind : {"response"}, status_code : {200, 201, 202, 400, 500}]
        \cup {[kind |-> "exception", status_code |-> 0],
              [kind |-> "no_response", status_code |-> 0]}

\* the call comes back: requests.post is not reached without a key, and with
\* one it returns only when the gateway answers or the connection fails
returns(key, response) == key = "" \/ response.kind # "no_response"

\* the "Brevo API key not configured" warnings of one call
key_warnings(key) == IF key = "" THEN 1 ELSE 0

\* the value returned for the response the gateway gives
send_email_notification(key, response) ==
    IF key = "" THEN FALSE
    ELSE IF response.kind = "exception" THEN FALSE
    ELSE response.status_code \in {200, 201, 202}

(***************************************************************************)
(* start_scheduler, stop_scheduler and the scheduler's job processing      *)
(***************************************************************************)
\* add_job without max_instances: one instance of the job at a time
max_instances == 1

instance_always_available(running) == TRUE

\* the executor accepts the job unless max_instances instances are running
instance_available(running) == running < max_instances

scheduler_dies(sch) == [sch EXCEPT !.state = "shutdown"]

\* the executor catches the exception a job raises and logs it
after_job_error(sch) == sch

StartScheduler ==
    /\ Quiet /\ QuietRuns
    /\ scheduler.state = "stopped"
    /\ scheduler' = [scheduler EXCEPT !.state = "running",
                                      !.next_run_time = next_fire_from(now)]
    /\ UNCHANGED <<now, day, attendance, requests, submitted, count_request,
                   users, api_key, runs, notifications, job_errors>>

StopScheduler ==
    /\ Quiet /\ QuietRuns
    /\ scheduler.state = "running"
    /\ scheduler' = [scheduler EXCEPT !.state = "shutdown"]
    /\ UNCHANGED <<now, day, attendance, requests, submitted, count_request,
                   users, api_key, runs, notifications, job_errors>>

\* the scheduler wakes up at next_run_time and hands the job to the executor
ProcessJobs ==
    /\ Quiet /\ QuietRuns
    /\ JobDue
    /\ LET running == Cardinality({r \in RunIds : runs[r].pc # "idle"})
           free == {r \in RunIds : runs[r].pc = "idle"}
       IN  IF instance_available(running) /\ free # {}
           THEN LET r == CHOOSE x \in free : \A y \in free : x <= y
                IN  /\ runs' = [runs EXCEPT ![r].pc = "start",
                                            ![r].run = scheduler.submitted + 1]
                    /\ scheduler' =
                         [scheduler EXCEPT
                            !.next_run_time = next_fire_after(@),
                            !.submitted = @ + 1]
           ELSE \* "maximum number of running instances reached": skipped
                /\ runs' = runs
                /\ scheduler' =
                     [scheduler EXCEPT !.next_run_time = next_fire_after(@)]
    /\ UNCHANGED <<now, day, attendance, requests, submitted, count_request,
                   users, api_key, notifications, job_errors>>

(***************************************************************************)
(* send_chef_notification                                                  *)
(***************************************************************************)
\* today = date.today(); if is_weekend(today): return
RunStart(r) ==
    /\ Quiet /\ QuietRuns
    /\ runs[r].pc = "start"
    /\ runs' = [runs EXCEPT ![r].today = now.date,
                            ![r].pc = IF is_weekend(now.date) THEN "done"
                                      ELSE "connect"]
    /\ UNCHANGED <<now, day, attendance, requests, submitted, count_request,
                   users, api_key, scheduler, notifications, job_errors>>

\* connection = get_db_connection(); cursor = connection.cursor()
RunConnect(r) ==
    /\ Quiet /\ QuietRuns
    /\ runs[r].pc = "connect"
    /\ \/ runs' = [runs EXCEPT ![r].pc = "count", ![r].conn = "open"]
       \/ \* get_db_connection raises HTTPException: it leaves the function
          runs' = [runs EXCEPT ![r].pc = "done", ![r].raised = TRUE]
       \/ \* connection.cursor() raises, before the try block is entered
          runs' = [runs EXCEPT ![r].pc = "done", ![r].raised = TRUE,
                               ![r].conn = "open"]
    /\ UNCHANGED <<now, day, attendance, requests, submitted, count_request,
                   users, api_key, scheduler, notifications, job_errors>>

\* the COUNT without the condition on status
count_any_status(rows, d) ==
    Cardinality({k \in 1..Len(rows) : rows[k].date = d})

\* SELECT COUNT(*) FROM attendance WHERE date = %s AND status = 'office'
count_office(rows, d) ==
    Cardinality({k \in 1..Len(rows) :
                    rows[k].date = d /\ rows[k].status = "office"})

select_chefs_ignoring_active(rows) ==
    LET chefs == SelectSeq(rows, LAMBDA u : u.role = "chef")
    IN  [k \in 1..Len(chefs) |-> chefs[k].email]

\* SELECT email FROM users WHERE role = 'chef' AND is_active = 1
select_chefs(rows) ==
    LET chefs == SelectSeq(rows, LAMBDA u : u.role = "chef" /\ u.is_active)
    IN  [k \in 1..Len(chefs) |-> chefs[k].email]

\* the two SELECTs; with no chef the function logs a warning and ends
RunQuery(r) ==
    /\ Quiet /\ QuietRuns
    /\ runs[r].pc = "count"
    /\ \/ LET chefs == select_chefs(users)
          IN  runs' = [runs EXCEPT
                         ![r].office_count = count_office(attendance, runs[r].today),
                         ![r].chef_results = chefs,
                         ![r].k = 1,
                         ![r].pc = IF Len(chefs) > 0 THEN "send" ELSE "finally"]
       \/ \* except Exception: logger.error(...)
          runs' = [runs EXCEPT ![r].pc = "finally", ![r].failed = TRUE]
    /\ UNCHANGED <<now, day, attendance, requests, submitted, count_request,
                   users, api_key, scheduler, notifications, job_errors>>

\* one turn of the loop: send to chef k, then INSERT INTO notifications
RunNotify(r) ==
    /\ Quiet /\ QuietRuns
    /\ runs[r].pc = "send"
    /\ \E response \in Responses, inserted \in BOOLEAN :
         LET run == runs[r]
             chef_email == run.chef_results[run.k]
             email_sent == send_email_notification(api_key, response)
             sent == [run EXCEPT
                        !.sends = Append(@, [recipient_email |-> chef_email,
                                             email_sent |-> email_sent]),
                        !.warnings = @ + key_warnings(api_key)]
             entry == [run |-> run.run, type |-> "daily_count",
                       recipient_email |-> chef_email,
                       content |-> [date |-> run.today,
                                    office_count |-> run.office_count],
                       office_count |-> run.office_count,
                       status |-> IF email_sent THEN "sent" ELSE "failed"]
         IN  IF ~returns(api_key, response)
             THEN \* blocked in requests.post
                  runs' = [runs EXCEPT ![r].pc = "post"]
             ELSE IF inserted
             THEN runs' = [runs EXCEPT ![r] =
                             [sent EXCEPT
                                !.pending = Append(@, entry),
                                !.k = @ + 1,
                                !.pc = IF run.k < Len(run.chef_results)
                                       THEN "send" ELSE "commit"]]
             ELSE \* cursor.execute raises: except Exception
                  runs' = [runs EXCEPT ![r] =
                             [sent EXCEPT !.pc = "finally", !.failed = TRUE]]
    /\ UNCHANGED <<now, day, attendance, requests, submitted, count_request,
                   users, api_key, scheduler, notifications, job_errors>>

\* connection.commit(), once, after the loop
RunCommit(r) ==
    /\ Quiet /\ QuietRuns
    /\ runs[r].pc = "commit"
    /\ \/ /\ notifications' = notifications \o runs[r].pending
          /\ runs' = [runs EXCEPT ![r].pc = "finally", ![r].pending = << >>]
       \/ \* commit raises: except Exception
          /\ notifications' = notifications
          /\ runs' = [runs EXCEPT ![r].pc = "finally", ![r].failed = TRUE]
    /\ UNCHANGED <<now, day, attendance, requests, submitted, count_request,
                   users, api_key, scheduler, job_errors>>

\* finally: cursor.close(); connection.close(): what was not committed is
\* rolled back
RunFinally(r) ==
    /\ Quiet /\ QuietRuns
    /\ runs[r].pc = "finally"
    /\ runs' = [runs EXCEPT ![r].pc = "done", ![r].conn = "closed",
                            ![r].pending = << >>]
    /\ UNCHANGED <<now, day, attendance, requests, submitted, count_request,
                   users, api_key, scheduler, notifications, job_errors>>

\* the executor releases the instance; an exception the job raised is logged
JobEnd(r) ==
    /\ runs[r].pc = "done"
    /\ runs' = [runs EXCEPT ![r] = IdleRun]
    /\ job_errors' = job_errors
                       + (IF runs[r].raised \/ runs[r].failed THEN 1 ELSE 0)
    /\ scheduler' = IF runs[r].raised THEN after_job_error(scheduler)
                    ELSE scheduler
    /\ UNCHANGED <<now, day, attendance, requests, submitted, count_request,
                   users, api_key, notifications>>

NextDispatch ==
    \/ Tick
    \/ StartScheduler
    \/ StopScheduler
    \/ ProcessJobs
    \/ \E r \in RunIds : RunStart(r)
    \/ \E r \in RunIds : RunConnect(r)
    \/ \E r \in RunIds : RunQuery(r)
    \/ \E r \in RunIds : RunNotify(r)
    \/ \E r \in RunIds : RunCommit(r)
    \/ \E r \in RunIds : RunFinally(r)
    \/ \E r \in RunIds : JobEnd(r)

SpecDispatch == InitDispatch /\ [][NextDispatch]_vars

\* the steps of the execution in worker slot r
RunStep(r) ==
    \/ RunStart(r)
    \/ RunConnect(r)
    \/ RunQuery(r)
    \/ RunNotify(r)
    \/ RunCommit(r)
    \/ RunFinally(r)
    \/ JobEnd(r)

(***************************************************************************)
(* get_daily_office_count                                                  *)
(***************************************************************************)
\* the whole handler: parse date_str (today when it is not given), connect,
\* SELECT COUNT(*), close, return
DailyCount ==
    /\ Quiet /\ QuietRuns
    /\ count_request.pc = "idle"
    /\ \E date_str \in RequestDates(now) \cup {NoDateString} :
         IF date_str # NoDateString /\ strptime_raises(date_str)
         THEN count_request' = [IdleCount EXCEPT !.pc = "done",
                                                 !.status_code = 400]
         ELSE LET check_date == IF date_str = NoDateString THEN now.date
                                ELSE strptime(date_str)
              IN  \/ count_request' =
                        [IdleCount EXCEPT
                           !.pc = "done", !.check_date = check_date,
                           !.office_count = count_office(attendance, check_date),
                           !.conn = "closed", !.status_code = 200]
                  \/ \* get_db_connection raises HTTPException(500)
                     count_request' = [IdleCount EXCEPT !.pc = "done",
                                                        !.status_code = 500]
                  \/ \* connection.cursor() raises, before the try block
                     count_request' = [IdleCount EXCEPT !.pc = "done",
                                                        !.conn = "open",
                                                        !.status_code = 500]
                  \/ \* cursor.execute raises: finally closes, the error leaves
                     count_request' = [IdleCount EXCEPT !.pc = "done",
                                                        !.conn = "closed",
                                                        !.status_code = 500]
    /\ UNCHANGED <<now, day, attendance, requests, submitted, users, api_key,
                   scheduler, runs, notifications, job_errors>>

\* the response leaves the server
CountRespond ==
    /\ count_request.pc = "done"
    /\ count_request' = IdleCount
    /\ UNCHANGED <<now, day, attendance, requests, submitted, users, api_key,
                   scheduler, runs, notifications, job_errors>>

(***************************************************************************)
(* One business day of the whole service: the attendance table holds what  *)
(* was submitted before, a client submits, the scheduler is started and    *)
(* the day's notification runs, the daily count is asked for.              *)
(***************************************************************************)
\* users of the directory who submitted on an earlier day
EarlierUserIds == {3, 4}

\* Friday 2024-06-07 18:57, when the earlier submissions were committed
EarlierInstant == at(ymd2ord(2024, 6, 7), TimePoints[1])

\* the table those submissions left: office for Tuesday 2024-06-11 by both,
\* office and leave for Monday 2024-06-10
EarlierTable ==
    LET row(u, d, st) == [user_id |-> u, date |-> d, status |-> st,
                          marked_at |-> CURRENT_TIMESTAMP(EarlierInstant)]
    IN  <<row(3, ymd2ord(2024, 6, 11), "office"),
          row(4, ymd2ord(2024, 6, 11), "office"),
          row(3, ymd2ord(2024, 6, 10), "office"),
          row(4, ymd2ord(2024, 6, 10), "leave")>>

\* the directory with one active chef
OneChef ==
    CHOOSE u \in Directories :
        \A k \in 1..Len(u) : u[k].is_active <=> u[k].email \in {"chef1", "emp1"}

\* Monday 2024-06-10 at 18:57, the last day of the model's horizon
InitDay ==
    /\ now = at(ymd2ord(2024, 6, 10), TimePoints[1])
    /\ day = MaxDays
    /\ attendance = EarlierTable
    /\ requests = [i \in ReqIds |-> IdleRequest]
    /\ submitted = 0
    /\ count_request = IdleCount
    /\ InitScheduler
    /\ users = OneChef
    /\ api_key = "key"

NextDay ==
    \/ Tick
    \/ Submit(1)
    \/ Connect(1)
    \/ Execute(1)
    \/ Commit(1)
    \/ Close(1)
    \/ Respond(1)
    \/ DailyCount
    \/ CountRespond
    \/ StartScheduler
    \/ ProcessJobs
    \/ \E r \in RunIds : RunStart(r)
    \/ \E r \in RunIds : RunConnect(r)
    \/ \E r \in RunIds : RunQuery(r)
    \/ \E r \in RunIds : RunNotify(r)
    \/ \E r \in RunIds : RunCommit(r)
    \/ \E r \in RunIds : RunFinally(r)
    \/ \E r \in RunIds : JobEnd(r)

SpecDay == InitDay /\ [][NextDay]_vars

(***************************************************************************)
(* Properties of the attendance path.                                      *)
(***************************************************************************)
Saturday == 5
Sunday == 6

\* request i is received in this step
Received(i) == requests[i].pc = "idle" /\ requests'[i].pc # "idle"

\* request i commits its statement in this step
Committed(i) ==
    /\ requests[i].pc = "commit"
    /\ requests'[i].pc = "close"
    /\ requests'[i].status_code = 200

\* the committed rows of key (user_id, d)
RowsOf(rows, user_id, d) ==
    {k \in 1..Len(rows) : rows[k].user_id = user_id /\ rows[k].date = d}

\* C1: no stored attendance record has a date that is a Saturday or a Sunday.
NoWeekendRecord ==
    \A k \in 1..Len(attendance) :
        weekday(attendance[k].date) \notin {Saturday, Sunday}

\* C2: a submission whose requested date is a Saturday or a Sunday is rejected
\* with the weekend error at any time of day, whether or not that date is
\* today, and the attendance table is left as it was.
WeekendRequestRejected ==
    /\ [](\A i \in ReqIds :
            requests[i].pc \in {"connect", "execute", "commit", "close"}
                => weekday(strptime(requests[i].date)) \notin {Saturday, Sunday})
    /\ [][\A i \in ReqIds :
            (/\ Received(i)
             /\ ~strptime_raises(requests'[i].date)
             /\ weekday(strptime(requests'[i].date)) \in {Saturday, Sunday})
            => /\ requests'[i].pc = "done"
               /\ requests'[i].status_code = 400
               /\ requests'[i].detail = "Cannot mark attendance on weekends"
               /\ attendance' = attendance]_vars

\* a request for today, a Saturday, is answered with the weekend error after
\* the cutoff
WeekendRejectedAfterCutoff ==
    \E i \in ReqIds :
        /\ requests[i].pc = "done"
        /\ requests[i].detail = "Cannot mark attendance on weekends"
        /\ strptime(requests[i].date) = now.date
        /\ weekday(now.date) = Saturday
        /\ now.hour = 21 /\ now.minute = 45

\* the instant n is strictly after the cutoff time of day on its own day
StrictlyAfterCutoff(n) ==
    LET micros(h, mi, sec) == ((h * 60 + mi) * 60 + sec)
    IN  \/ micros(n.hour, n.minute, n.second) > micros(CutoffHour, CutoffMinute, 0)
        \/ /\ micros(n.hour, n.minute, n.second) = micros(CutoffHour, CutoffMinute, 0)
           /\ n.microsecond > 0

OneRecordPerKey ==
    /\ [](\A j, k \in 1..Len(attendance) :
            (/\ attendance[j].user_id = attendance[k].user_id
             /\ attendance[j].date = attendance[k].date) => j = k)
    /\ [][/\ \A i \in ReqIds :
               Committed(i) =>
                 LET mine == RowsOf(attendance', requests[i].user_id,
                                    requests[i].attendance_date)
                 IN  /\ Cardinality(mine) = 1
                     /\ \A k \in mine : attendance'[k].status = requests[i].status
           /\ \A k \in 1..Len(attendance) :
               \E k2 \in RowsOf(attendance', attendance[k].user_id,
                                attendance[k].date) :
                   ~dt_gt(attendance[k].marked_at, attendance'[k2].marked_at)]_vars

\* two upserts with identical arguments have both committed and the table
\* holds one record
RepeatedUpsertOneRecord ==
    \E i, j \in ReqIds :
        /\ i # j
        /\ requests[i].pc = "close" /\ requests[i].status_code = 200
        /\ requests[j].pc = "close" /\ requests[j].status_code = 200
        /\ requests[i].user_id = requests[j].user_id
        /\ requests[i].attendance_date = requests[j].attendance_date
        /\ requests[i].status = requests[j].status
        /\ dt_gt(requests[j].marked_at, requests[i].marked_at)
        /\ Len(attendance) = 1
        /\ attendance[1].marked_at = requests[j].marked_at

\* C5: under any interleaving of submissions, the attendance table changes
\* only when a submission commits; the record of the committing submission's
\* key then is exactly the write that submission attempted (its status with
\* its timestamp, one record), and the records of all other keys are as they
\* were.
LastCommittedWins ==
    [][/\ attendance' # attendance => \E i \in ReqIds : Committed(i)
       /\ \A i \in ReqIds :
           Committed(i) =>
             LET u == requests[i].user_id
                 d == requests[i].attendance_date
                 mine == RowsOf(attendance', u, d)
             IN  /\ Cardinality(mine) = 1
                 /\ \A k \in mine :
                       attendance'[k] =
                         [user_id |-> u, date |-> d,
                          status |-> requests[i].status,
                          marked_at |-> requests[i].marked_at]
                 /\ Len(attendance') <= Len(attendance) + 1
                 /\ \A k \in 1..Len(attendance) :
                       (attendance[k].user_id # u \/ attendance[k].date # d)
                         => attendance'[k] = attendance[k]]_vars

\* two submissions for the same key with different statuses were in flight
\* together, both have committed, and the record is the later write
TwoWritersSameKey ==
    \E i, j \in ReqIds :
        /\ i # j
        /\ requests[i].pc = "close" /\ requests[i].status_code = 200
        /\ requests[j].pc = "close" /\ requests[j].status_code = 200
        /\ requests[i].user_id = requests[j].user_id
        /\ requests[i].attendance_date = requests[j].attendance_date
        /\ requests[i].status # requests[j].status
        /\ dt_gt(requests[j].marked_at, requests[i].marked_at)
        /\ Len(attendance) = 1
        /\ attendance[1].status = requests[j].status
        /\ attendance[1].marked_at = requests[j].marked_at

(***************************************************************************)
(* Properties of the scheduler and of the dispatch run.                    *)
(***************************************************************************)
\* the committed notification rows of run n for one recipient
EntriesOf(n, email) ==
    {k \in 1..Len(notifications) :
        notifications[k].run = n /\ notifications[k].recipient_email = email}

\* the committed notification row of send j of run r, with that send's outcome
Recorded(r, j) ==
    \E k \in EntriesOf(runs[r].run, runs[r].sends[j].recipient_email) :
        notifications[k].status =
            (IF runs[r].sends[j].email_sent THEN "sent" ELSE "failed")

\* C6: a dispatch run that found recipients has, when it ends, attempted a send
\* to every one of them and recorded exactly one notification entry for each,
\* "sent" when the send succeeded and "failed" when it did not.
EveryRecipientAttemptedAndLogged ==
    \A r \in RunIds :
        (runs[r].pc = "done" /\ Len(runs[r].chef_results) > 0) =>
            /\ Len(runs[r].sends) = Len(runs[r].chef_results)
            /\ \A j \in 1..Len(runs[r].chef_results) :
                 /\ runs[r].sends[j].recipient_email = runs[r].chef_results[j]
                 /\ Cardinality(EntriesOf(runs[r].run,
                                          runs[r].chef_results[j])) = 1
                 /\ Recorded(r, j)

\* C7: when a dispatch run has ended, every send it attempted before a failure
\* to write the log has a committed notification entry.
AttemptedSendsStayLogged ==
    \A r \in RunIds :
        runs[r].pc = "done" =>
            \A j \in 1..Len(runs[r].sends) :
                j < runs[r].k => Recorded(r, j)

\* C8: with no gateway key configured, a dispatch run with recipients whose
\* log writes all succeed records one "failed" entry per recipient and emits
\* the missing-key warning once for the run.
MissingKeyWarnsOncePerRun ==
    \A r \in RunIds :
        (/\ runs[r].pc = "done"
         /\ api_key = ""
         /\ Len(runs[r].chef_results) > 0
         /\ ~runs[r].failed) =>
            /\ ~runs[r].raised
            /\ \A j \in 1..Len(runs[r].chef_results) :
                 \E k \in EntriesOf(runs[r].run, runs[r].chef_results[j]) :
                     notifications[k].status = "failed"
            /\ runs[r].warnings = 1

\* the runs in progress
ActiveRuns == {r \in RunIds : runs[r].pc # "idle"}

\* the scheduler processes a due trigger in this step
Triggered == JobDue /\ scheduler'.next_run_time # scheduler.next_run_time

\* C9: at most one dispatch run is in progress at any time, and a trigger that
\* comes while a run is in progress starts no run.
AtMostOneRunInProgress ==
    /\ [](Cardinality(ActiveRuns) <= 1)
    /\ [][(Triggered /\ ActiveRuns # {}) => runs' = runs]_vars

\* the run started yesterday is still in progress and today's trigger has
\* been processed without starting a second run
FiringSkipped ==
    \E r \in RunIds :
        /\ runs[r].pc \in {"connect", "count", "send", "commit", "finally"}
        /\ runs[r].today = now.date - 1
        /\ ActiveRuns = {r}
        /\ scheduler.state = "running"
        /\ weekday(now.date) \notin {Saturday, Sunday}
        /\ scheduler.next_run_time.date > now.date

\* run r ends in this step with an error
FailedEnd(r) ==
    /\ runs[r].pc = "done"
    /\ runs[r].raised \/ runs[r].failed
    /\ runs'[r].pc = "idle"

\* C10: a dispatch run that fails, by an exception that leaves the job or by
\* one caught inside it, leaves the scheduler as it was, running with its next
\* fire time on a business day, and frees its instance; the next trigger then
\* starts a dispatch run.
SchedulerSurvivesFault ==
    /\ [](scheduler.state = "running" =>
            /\ weekday(scheduler.next_run_time.date) \notin {Saturday, Sunday}
            /\ scheduler.next_run_time.hour = NotifyHour
            /\ scheduler.next_run_time.minute = NotifyMinute
            /\ ~dt_gt(now, scheduler.next_run_time))
    /\ [][/\ \A r \in RunIds :
               FailedEnd(r) => scheduler' = scheduler /\ runs'[r] = IdleRun
          /\ (job_errors > 0 /\ Triggered /\ ActiveRuns = {})
               => \E r \in RunIds : runs'[r].pc = "start"]_vars

\* after a failed run, the next trigger has started a run
RunStartedAfterFault ==
    \E r \in RunIds :
        /\ job_errors > 0
        /\ runs[r].pc = "start"
        /\ scheduler.state = "running"

\* C11: a gateway call that never responds cannot stall a dispatch run: a run
\* in progress always has a step to take, so the send to a recipient whose
\* call got no response ends, as a failed send, and the run goes on to the
\* remaining recipients and completes.
RunNeverStalls ==
    \A r \in RunIds :
        (Quiet /\ QuietRuns /\ runs[r].pc # "idle") => ENABLED RunStep(r)

\* the emails of the active users with role chef
ActiveChefs ==
    {users[k].email : k \in {j \in 1..Len(users) :
                                users[j].role = "chef" /\ users[j].is_active}}

\* run r has read the recipients and found none
FoundNoChef(r) == runs[r].k >= 1 /\ runs[r].chef_results = << >>

\* C12: a dispatch run that finds no active chef attempts no send, writes no
\* notification entry and ends without an error; a send or a notification
\* entry only ever goes to an active user with role chef.
NoChefNoEntry ==
    /\ [](\A r \in RunIds :
            FoundNoChef(r) =>
                /\ runs[r].pc \in {"finally", "done"}
                /\ runs[r].sends = << >> /\ runs[r].pending = << >>
                /\ ~runs[r].failed /\ ~runs[r].raised
                /\ \A k \in 1..Len(notifications) :
                      notifications[k].run # runs[r].run)
    /\ [](\A r \in RunIds :
            /\ runs[r].k >= 1 => (runs[r].chef_results = << >> <=> ActiveChefs = {})
            /\ \A j \in 1..Len(runs[r].sends) :
                  runs[r].sends[j].recipient_email \in ActiveChefs
            /\ \A j \in 1..Len(runs[r].pending) :
                  runs[r].pending[j].recipient_email \in ActiveChefs)
    /\ [](\A k \in 1..Len(notifications) :
            notifications[k].recipient_email \in ActiveChefs)
    /\ [][\A r \in RunIds :
            (FoundNoChef(r) /\ runs'[r].pc = "idle")
                => job_errors' = job_errors /\ notifications' = notifications]_vars

\* every chef is inactive and a run has ended having found no recipient
RunEndedWithoutChef ==
    \E r \in RunIds :
        /\ runs[r].pc = "done"
        /\ FoundNoChef(r)
        /\ runs[r].conn = "closed"
        /\ \E k \in 1..Len(users) : users[k].role = "chef"
        /\ ActiveChefs = {}
        /\ notifications = << >>

\* C14: a dispatch run that finds today to be a Saturday or a Sunday ends at
\* once: it opens no connection, reads no count, attempts no send and writes
\* no notification entry; no notification entry is for a weekend date.
WeekendRunReturnsAtOnce ==
    /\ [][\A r \in RunIds :
            (/\ runs[r].pc = "start" /\ runs'[r].pc # "start"
             /\ weekday(now.date) \in {Saturday, Sunday})
            => /\ runs'[r] = [runs[r] EXCEPT !.pc = "done", !.today = now.date]
               /\ notifications' = notifications]_vars
    /\ [](\A r \in RunIds :
            (/\ runs[r].pc \notin {"idle", "start"}
             /\ weekday(runs[r].today) \in {Saturday, Sunday})
            => /\ runs[r].pc = "done"
               /\ runs[r].conn = "none"
               /\ runs[r].k = 0 /\ runs[r].office_count = 0
               /\ runs[r].chef_results = << >>
               /\ runs[r].sends = << >> /\ runs[r].pending = << >>
               /\ ~runs[r].raised /\ ~runs[r].failed)
    /\ [](\A k \in 1..Len(notifications) :
            weekday(notifications[k].content.date) \notin {Saturday, Sunday})

\* the run of Friday's trigger began on Saturday and has ended, with active
\* chefs in the directory, having done nothing
SaturdayRunEnded ==
    \E r \in RunIds :
        /\ runs[r].pc = "done"
        /\ runs[r].today = now.date
        /\ weekday(now.date) = Saturday
        /\ ActiveChefs # {}
        /\ runs[r].sends = << >>
        /\ notifications = << >>

\* C15: when an attendance submission or a dispatch run has ended, on whatever
\* exit path, the database connection it acquired has been closed.
ConnectionsReleased ==
    /\ \A i \in ReqIds : requests[i].pc = "done" => requests[i].conn # "open"
    /\ \A r \in RunIds : runs[r].pc = "done" => runs[r].conn # "open"

(***************************************************************************)
(* Properties of the office count.                                         *)
(***************************************************************************)
\* the users whose committed record for date d has status office
OfficeUsers(rows, d) ==
    {rows[k].user_id : k \in {j \in 1..Len(rows) :
                                 rows[j].date = d /\ rows[j].status = "office"}}

\* the daily-count request is answered with a count in this step
CountAnswered ==
    /\ count_request.pc = "idle"
    /\ count_request'.pc = "done"
    /\ count_request'.status_code = 200

\* run r reads the count in this step
CountRead(r) == runs[r].pc = "count" /\ runs'[r].k >= 1

\* C13: the office count of a date, as the daily-count request returns it and
\* as a dispatch run reads it, is the number of users whose committed record
\* for that date has status office at that moment.
CountIsOfficeUsers ==
    [][/\ CountAnswered =>
            count_request'.office_count =
                Cardinality(OfficeUsers(attendance, count_request'.check_date))
       /\ \A r \in RunIds :
            CountRead(r) =>
                runs'[r].office_count =
                    Cardinality(OfficeUsers(attendance, runs[r].today))]_vars

\* four users have a record for 2024-06-11, three with office and one with
\* home, and the count returned for that date is 3
ThreeOfficeOneHome ==
    LET d == ymd2ord(2024, 6, 11)
        rows == {k \in 1..Len(attendance) : attendance[k].date = d}
    IN  /\ count_request.pc = "done"
        /\ count_request.check_date = d
        /\ count_request.office_count = 3
        /\ Cardinality(rows) = 4
        /\ Cardinality({k \in rows : attendance[k].status = "office"}) = 3
        /\ Cardinality({k \in rows : attendance[k].status = "home"}) = 1

\* the notification of day d has been computed: a run has read the count of
\* d, or an entry with it has been written
Computed(d) ==
    \/ \E r \in RunIds :
          runs[r].pc \notin {"idle", "start"} /\ runs[r].today = d /\ runs[r].k >= 1
    \/ \E k \in 1..Len(notifications) : notifications[k].content.date = d

\* C16: with the cutoff and the notification time of the code, no submission
\* is accepted for today, without rollover, and none is committed for today,
\* once today's notification has been computed: the count sent for a day
\* includes every record stored for it by a same-day submission.
NoSubmissionAfterNotification ==
    [][\A i \in ReqIds :
         /\ (/\ Received(i)
             /\ requests'[i].pc = "connect"
             /\ requests'[i].attendance_date = now.date) => ~Computed(now.date)
         /\ (/\ Committed(i)
             /\ requests[i].attendance_date = now.date) => ~Computed(now.date)]_vars

====
